---- MODULE Spec2Model ----
(***************************************************************************)
(* Resource lifecycle and render-loop state machine of the four triangle   *)
(* demos in src/CPP/Triangle: phong_triangle.cpp ("phong"),                *)
(* textured_triangle.cpp ("textured"), simple_triangle.cpp ("simple") and  *)
(* triangle_demo.cpp ("demo").  One process is one run of main(): the      *)
(* renderer is constructed, init() is called, run() loops until the close  *)
(* flag is seen, and the destructor calls cleanup().                       *)
(*                                                                         *)
(* A GPU handle is "live" from the call that creates it until a delete     *)
(* call on it; what the driver does with the object behind the name is     *)
(* outside the program.  Every lifecycle call is appended to the log       *)
(* `life` with the argument it was given and the state of the GL loader    *)
(* and of GLFW at the time of the call.                                    *)
(***************************************************************************)
EXTENDS Integers, Sequences, FiniteSets, TLC

VARIABLES
    variant,        \* which of the four programs runs
    pc,             \* position of the single thread in main()
    window,         \* GLFWwindow* member: "uninit", "null" or "valid"
    member,         \* GLuint members VAO, VBO, shaderProgram, texture
    gpu,            \* status of each GPU handle: "none", "live", "deleted"
    glLoaded,       \* glad function pointers loaded
    glfw,           \* "off", "up" or "terminated"
    life,           \* log of lifecycle calls (init and cleanup)
    frame,          \* log of the calls of the current loop iteration
    issued,         \* kinds of frame calls ever issued in this process
    closeFlag,      \* glfwWindowShouldClose(window)
    objectColor,    \* glm::vec3 objectColor, in tenths
    rotationAngle,  \* float rotationAngle, in units of 2^-30
    frames,         \* loop iterations started
    initResult,     \* "none" until init() returns, then "ok" or "fail"
    exitCode,       \* <<>> until main returns, then <<0>> or <<-1>>
    depthTest,      \* GL_DEPTH_TEST enabled
    clearMask,      \* mask of the last glClear
    rejected,       \* storage uploads the driver rejected
    failed,         \* the initialization step that failed, or "none"
    shadersOk,      \* createShaders() returned true
    viewport,       \* current glViewport dimensions
    lastResize,     \* dimensions of the last framebuffer-size event, or <<>>
    held,           \* color-select keys seen down by the last processInput()
    model,          \* glm::mat4 model: axis and angle of the rotation
    view,           \* glm::mat4 view: eye, center, up
    projection,     \* glm::mat4 projection: fovy, width, height, near, far
    lightPos,       \* glm::vec3 lightPos, in tenths
    lightColor,     \* glm::vec3 lightColor, in tenths
    viewPos,        \* glm::vec3 viewPos, in tenths
    active,         \* uniform names active in the linked program
    uniforms,       \* value of each uniform in the program object
    uploaded,       \* uniforms stored by glUniform* in this iteration
    store,          \* static GPU storage: upload counts and attribute layout
    fragN,          \* fragment shader input Normal
    fragL,          \* fragment shader lightPos - FragPos
    fragV,          \* fragment shader viewPos - FragPos
    fragOut,        \* terms computed by the fragment shader
    bound,          \* GL context: program in use, bound VAO, unit, texture
    refs,           \* use and bind calls made, with the handle's status
    draws,          \* draw submissions made, with the context they ran in
    texX,           \* loadTexture(): int x of the inner loop
    texY,           \* loadTexture(): int y of the outer loop
    textureData,    \* loadTexture(): unsigned char textureData[], by offset
    texWrites,      \* number of stores made to each offset of textureData
    texStray,       \* offsets outside textureData that were stored to
    texImage        \* what glTexImage2D was given: width, height, bytes

vars == <<variant, pc, window, member, gpu, glLoaded, glfw, life, frame,
          issued, closeFlag, objectColor, rotationAngle, frames, initResult,
          exitCode, depthTest, clearMask, rejected, failed, shadersOk,
          viewport, lastResize, held, model, view, projection, lightPos,
          lightColor, viewPos, active, uniforms, uploaded, store, fragN,
          fragL, fragV, fragOut, bound, refs, draws, texX, texY, textureData,
          texWrites, texStray, texImage>>

gpuVars == <<window, member, gpu, glLoaded, glfw, life>>
loopVars == <<frame, issued, closeFlag, objectColor, rotationAngle, frames,
              clearMask, viewport>>
resVars == <<initResult, exitCode, depthTest, rejected, failed, shadersOk>>
lightVars == <<lightPos, lightColor, viewPos>>
fragVars == <<fragN, fragL, fragV, fragOut>>
ctxVars == <<bound, refs, draws>>
texVars == <<texX, texY, textureData, texWrites, texStray, texImage>>

----------------------------------------------------------------------------
(* Bounds *)

MaxFrames == 6

\* Fragment shader inputs: vectors with integer components in -VecMax..VecMax
VecMax == 1

----------------------------------------------------------------------------
(* The four programs and what each of them has *)

Variants == {"phong", "textured", "simple", "demo"}

\* Variants with objectColor, rotationAngle, matrices and uniforms.
HasTransform(v) == v \in {"phong", "textured"}

\* Variant with a texture member.
HasTexture(v) == v = "textured"

\* Variants whose cleanup() tests each handle before releasing it.
Guarded(v) == v \in {"simple", "demo"}

Members == {"VAO", "VBO", "shaderProgram", "texture"}
Objs == {"VAO", "VBO", "program", "texture", "vertexShader", "fragmentShader"}

\* The GPU objects the renderer instance owns after init().
Owned(v) == {"VAO", "VBO", "program"} \cup
            (IF HasTexture(v) THEN {"texture"} ELSE {})

\* Member values after the constructor has run.
ConstructedMember(v, m) ==
    IF m = "texture" /\ ~HasTexture(v) THEN "absent"
    ELSE IF Guarded(v) THEN "zero" ELSE "uninit"

ConstructedWindow(v) == IF Guarded(v) THEN "null" ELSE "uninit"

\* objectColor after the constructor, as tenths of each component.
InitialColor(v) ==
    IF v = "phong" THEN <<3, 7, 9>>
    ELSE IF v = "textured" THEN <<10, 10, 10>>
    ELSE <<0, 0, 0>>

DefaultViewport == <<800, 600>>
ResizeDims == {<<640, 640>>}

Keys == {"ESC", "R", "G", "B", "X"}   \* X: Y in phong, W in textured

----------------------------------------------------------------------------
(* Lifecycle log *)

Ev(call, obj, arg, by) ==
    [call |-> call, obj |-> obj, arg |-> arg, by |-> by,
     loaded |-> glLoaded, glfw |-> glfw]

IsDelete(e) == e.call \in {"glDeleteVertexArrays", "glDeleteBuffers",
                           "glDeleteProgram", "glDeleteTextures",
                           "glDeleteShader"}

IsCreate(e) == e.call \in {"glGenVertexArrays", "glGenBuffers",
                           "glCreateProgram", "glGenTextures",
                           "glCreateShader"}

----------------------------------------------------------------------------
(* Matrices, vectors and float arithmetic *)

\* 0.01f, the float32 nearest to 0.01, in units of 2^-30.
StepF32 == 10737418

RECURSIVE UlpF32(_, _)
\* Spacing of float32 values around n units of 2^-30 (24-bit significand).
UlpF32(n, u) == IF n < 16777216 * u THEN u ELSE UlpF32(n, 2 * u)

\* n units of 2^-30 rounded to float32, round-to-nearest-even.
RoundF32(n) ==
    LET u == UlpF32(n, 1)
        q == n \div u
        r == n % u
    IN  IF 2 * r < u THEN q * u
        ELSE IF 2 * r > u THEN (q + 1) * u
        ELSE IF q % 2 = 0 THEN q * u ELSE (q + 1) * u

\* float + float
F32Add(a, b) == RoundF32(a + b)

\* glm::lookAt(eye, center, up), vectors in tenths
LookAt(eye, center, up) == eye \o center \o up

\* glm::perspective(radians(fovy), w / h, near, far); near, far in tenths
Perspective(fovy, w, h, near, far) == <<fovy, w, h, near, far>>

\* glm::mat4(1.0f): the rotation by angle 0
Identity == <<0, 1, 0, 0>>

\* glm::rotate(m, angle, vec3(0, 1, 0)) for m a rotation about y
RotateY(m, angle) == <<0, 1, 0, m[4] + angle>>

ConstructedView(v) ==
    IF HasTransform(v)
    THEN LookAt(<<0, 0, 30>>, <<0, 0, 0>>, <<0, 10, 0>>)
    ELSE <<>>

ConstructedProjection(v) ==
    IF HasTransform(v) THEN Perspective(45, 800, 600, 1, 1000) ELSE <<>>

ConstructedModel(v) == IF HasTransform(v) THEN Identity ELSE <<>>

ConstructedLightPos(v) == IF v = "phong" THEN <<20, 20, 20>> ELSE <<>>
ConstructedLightColor(v) == IF v = "phong" THEN <<10, 10, 10>> ELSE <<>>
ConstructedViewPos(v) == IF v = "phong" THEN <<0, 0, 30>> ELSE <<>>

----------------------------------------------------------------------------
(* Uniforms *)

UniformNames == {"model", "view", "projection", "lightPos", "lightColor",
                 "objectColor", "viewPos", "texture1"}

\* Uniforms declared and used by the variant's shader sources.
ShaderUniforms(v) ==
    IF v = "phong"
    THEN {"model", "view", "projection", "lightPos", "viewPos", "lightColor",
          "objectColor"}
    ELSE IF v = "textured"
    THEN {"model", "view", "projection", "texture1", "objectColor"}
    ELSE {}

\* Uniforms render() looks up and sets.
HostUniforms(v) ==
    IF v = "phong"
    THEN {"model", "view", "projection", "lightPos", "lightColor",
          "objectColor", "viewPos"}
    ELSE IF v = "textured"
    THEN {"model", "view", "projection", "objectColor"}
    ELSE {}

\* What the linker may report as active: all declared uniforms, or all but
\* one that it dropped.
ActiveChoices(v) ==
    {ShaderUniforms(v)} \cup {ShaderUniforms(v) \ {n} : n \in ShaderUniforms(v)}

\* glGetUniformLocation: -1 when the name is not an active uniform.
GetUniformLocation(act, n) == IF n \in act THEN 1 ELSE -1

\* glUniform*(loc, value): location -1 is silently ignored.
SetUniform(u, n, loc, val) == IF loc = -1 THEN u ELSE [u EXCEPT ![n] = <<val>>]

----------------------------------------------------------------------------
(* Static storage *)

\* glVertexAttribPointer calls of setupBuffers(): index, components,
\* stride and offset in floats.
AttribLayout(v) ==
    IF v = "phong" \/ v = "demo" THEN {<<0, 3, 6, 0>>, <<1, 3, 6, 3>>}
    ELSE IF v = "textured" THEN {<<0, 3, 5, 0>>, <<1, 2, 5, 3>>}
    ELSE {<<0, 3, 3, 0>>}

EmptyStore ==
    [vertexUploads |-> 0, layout |-> {}, layoutCalls |-> 0,
     texUploads |-> 0, mipGens |-> 0]

ColorKeys == Keys \ {"ESC"}

----------------------------------------------------------------------------
(* GL context *)

\* The context after creation: no program in use, nothing bound, texture
\* unit 0 active.
NoContext == [program |-> "0", vao |-> "0", unit |-> 0, tex |-> "0"]

\* The value of a handle member as an argument: the object's name when the
\* member holds the id a create call stored, else what the member holds.
Handle(mem, m, o) == IF mem[m] = "id" THEN o ELSE mem[m]

\* A glUseProgram or glBind* call on the handle in member m.
Ref(call, mem, g, m, o) ==
    [call |-> call, obj |-> o, arg |-> mem[m], status |-> g[o]]

\* glDrawArrays(GL_TRIANGLES, first, count) in the current context.
DrawCall(first, count) ==
    [program |-> bound.program, vao |-> bound.vao, unit |-> bound.unit,
     tex |-> bound.tex, first |-> first, count |-> count,
     linked |-> shadersOk, init |-> initResult, at |-> pc,
     live |-> {o \in Objs : gpu[o] = "live"}]

----------------------------------------------------------------------------
\* The renderer after its constructor, before init().
Constructed ==
    /\ window = ConstructedWindow(variant)
    /\ member = [m \in Members |-> ConstructedMember(variant, m)]
    /\ gpu = [o \in Objs |-> "none"]
    /\ glLoaded = FALSE
    /\ glfw = "off"
    /\ life = <<>>
    /\ frame = <<>>
    /\ issued = {}
    /\ closeFlag = FALSE
    /\ objectColor = InitialColor(variant)
    /\ rotationAngle = 0
    /\ frames = 0
    /\ initResult = "none"
    /\ exitCode = <<>>
    /\ depthTest = FALSE
    /\ clearMask = "none"
    /\ rejected = {}
    /\ failed = "none"
    /\ shadersOk = FALSE
    /\ viewport = DefaultViewport
    /\ lastResize = <<>>
    /\ held = {}
    /\ model = ConstructedModel(variant)
    /\ view = ConstructedView(variant)
    /\ projection = ConstructedProjection(variant)
    /\ lightPos = ConstructedLightPos(variant)
    /\ lightColor = ConstructedLightColor(variant)
    /\ viewPos = ConstructedViewPos(variant)
    /\ active = {}
    /\ uniforms = [n \in UniformNames |-> <<>>]
    /\ uploaded = {}
    /\ store = EmptyStore
    /\ bound = NoContext
    /\ refs = {}
    /\ draws = {}

\* No call of loadTexture() is in progress: its locals do not exist.
TexIdle ==
    /\ texX = 0
    /\ texY = 0
    /\ textureData = <<>>
    /\ texWrites = <<>>
    /\ texStray = {}
    /\ texImage = <<>>

Init ==
    /\ variant \in Variants
    /\ pc = "glfwInit"
    /\ Constructed
    /\ TexIdle
    /\ fragN = <<>>
    /\ fragL = <<>>
    /\ fragV = <<>>
    /\ fragOut = <<>>

----------------------------------------------------------------------------
(* init() *)

\* init() returns false.
InitFails(step) ==
    /\ failed' = step
    /\ initResult' = "fail"
    /\ pc' = "mainCheck"

GlfwInit ==
    /\ pc = "glfwInit"
    /\ \E ok \in BOOLEAN :
         IF ok
         THEN /\ glfw' = "up"
              /\ pc' = "createWindow"
              /\ UNCHANGED <<failed, initResult>>
         ELSE /\ InitFails("glfwInit")
              /\ UNCHANGED glfw
    /\ life' = Append(life, Ev("glfwInit", "-", "-", "init"))
    /\ UNCHANGED <<lightVars, fragVars, texVars, ctxVars, lastResize, held,
                   model, view, projection, active, uniforms, uploaded,
                   store>>
    /\ UNCHANGED <<variant, window, member, gpu, glLoaded, loopVars,
                   exitCode, depthTest, rejected, shadersOk>>

CreateWindow ==
    /\ pc = "createWindow"
    /\ \E ok \in BOOLEAN :
         IF ok
         THEN /\ window' = "valid"
              /\ pc' = "loadGL"
              /\ UNCHANGED <<failed, initResult, glfw, life>>
         ELSE /\ window' = "null"
              /\ glfw' = "terminated"
              /\ life' = Append(life, Ev("glfwTerminate", "-", "-", "init"))
              /\ InitFails("createWindow")
    /\ UNCHANGED <<lightVars, fragVars, texVars, ctxVars, lastResize, held,
                   model, view, projection, active, uniforms, uploaded,
                   store>>
    /\ UNCHANGED <<variant, member, gpu, glLoaded, loopVars,
                   exitCode, depthTest, rejected, shadersOk>>

LoadGL ==
    /\ pc = "loadGL"
    /\ \E ok \in BOOLEAN :
         IF ok
         THEN /\ glLoaded' = TRUE
              /\ pc' = "compileVertex"
              /\ UNCHANGED <<failed, initResult>>
         ELSE /\ InitFails("loadGL")
              /\ UNCHANGED glLoaded
    /\ UNCHANGED <<lightVars, fragVars, texVars, ctxVars, lastResize, held,
                   model, view, projection, active, uniforms, uploaded,
                   store>>
    /\ UNCHANGED <<variant, window, member, gpu, glfw, life, loopVars,
                   exitCode, depthTest, rejected, shadersOk>>

----------------------------------------------------------------------------
(* createShaders() *)

\* Mutant: a vertex compile error is logged and the build goes on.
CompileVertex_ContinuesOnError ==
    /\ pc = "compileVertex"
    /\ gpu' = [gpu EXCEPT !["vertexShader"] = "live"]
    /\ life' = Append(life, Ev("glCreateShader", "vertexShader", "id", "init"))
    /\ \E ok \in BOOLEAN :
         IF ok
         THEN /\ pc' = "compileFragment"
              /\ UNCHANGED <<failed, initResult>>
         ELSE /\ failed' = "compileVertex"
              /\ pc' = "compileFragment"
              /\ UNCHANGED initResult
    /\ UNCHANGED <<lightVars, fragVars, texVars, ctxVars, lastResize, held,
                   model, view, projection, active, uniforms, uploaded,
                   store>>
    /\ UNCHANGED <<variant, window, member, glLoaded, glfw, loopVars,
                   exitCode, depthTest, rejected, shadersOk>>

CompileVertex ==
    /\ pc = "compileVertex"
    /\ gpu' = [gpu EXCEPT !["vertexShader"] = "live"]
    /\ life' = Append(life, Ev("glCreateShader", "vertexShader", "id", "init"))
    /\ \E ok \in BOOLEAN :
         IF ok
         THEN /\ pc' = "compileFragment"
              /\ UNCHANGED <<failed, initResult>>
         ELSE InitFails("compileVertex")
    /\ UNCHANGED <<lightVars, fragVars, texVars, ctxVars, lastResize, held,
                   model, view, projection, active, uniforms, uploaded,
                   store>>
    /\ UNCHANGED <<variant, window, member, glLoaded, glfw, loopVars,
                   exitCode, depthTest, rejected, shadersOk>>

CompileFragment ==
    /\ pc = "compileFragment"
    /\ gpu' = [gpu EXCEPT !["fragmentShader"] = "live"]
    /\ life' = Append(life,
                      Ev("glCreateShader", "fragmentShader", "id", "init"))
    /\ \E ok \in BOOLEAN :
         IF ok
         THEN /\ pc' = "linkProgram"
              /\ UNCHANGED <<failed, initResult>>
         ELSE InitFails("compileFragment")
    /\ UNCHANGED <<lightVars, fragVars, texVars, ctxVars, lastResize, held,
                   model, view, projection, active, uniforms, uploaded,
                   store>>
    /\ UNCHANGED <<variant, window, member, glLoaded, glfw, loopVars,
                   exitCode, depthTest, rejected, shadersOk>>

\* Mutant: the fragment stage is not deleted after a successful link.
LinkProgram_KeepsFragment ==
    /\ pc = "linkProgram"
    /\ member' = [member EXCEPT !["shaderProgram"] = "id"]
    /\ \E ok \in BOOLEAN :
         IF ok
         THEN /\ gpu' = [gpu EXCEPT !["program"] = "live",
                                    !["vertexShader"] = "deleted"]
              /\ life' = life \o
                    <<Ev("glCreateProgram", "program", "id", "init"),
                      Ev("glDeleteShader", "vertexShader", "id", "init")>>
              /\ shadersOk' = TRUE
              /\ \E act \in ActiveChoices(variant) : active' = act
              /\ pc' = "setupBuffers"
              /\ UNCHANGED <<failed, initResult>>
         ELSE /\ gpu' = [gpu EXCEPT !["program"] = "live"]
              /\ life' = Append(life,
                                Ev("glCreateProgram", "program", "id", "init"))
              /\ InitFails("linkProgram")
              /\ UNCHANGED <<shadersOk, active>>
    /\ UNCHANGED <<lightVars, fragVars, texVars, ctxVars, lastResize, held,
                   model, view, projection, uniforms, uploaded, store>>
    /\ UNCHANGED <<variant, window, glLoaded, glfw, loopVars,
                   exitCode, depthTest, rejected>>

\* glCreateProgram, attach, link, check; on success both stages are deleted
\* and createShaders() returns true.
LinkProgram ==
    /\ pc = "linkProgram"
    /\ member' = [member EXCEPT !["shaderProgram"] = "id"]
    /\ \E ok \in BOOLEAN :
         IF ok
         THEN /\ gpu' = [gpu EXCEPT !["program"] = "live",
                                    !["vertexShader"] = "deleted",
                                    !["fragmentShader"] = "deleted"]
              /\ life' = life \o
                    <<Ev("glCreateProgram", "program", "id", "init"),
                      Ev("glDeleteShader", "vertexShader", "id", "init"),
                      Ev("glDeleteShader", "fragmentShader", "id", "init")>>
              /\ shadersOk' = TRUE
              /\ \E act \in ActiveChoices(variant) : active' = act
              /\ pc' = "setupBuffers"
              /\ UNCHANGED <<failed, initResult>>
         ELSE /\ gpu' = [gpu EXCEPT !["program"] = "live"]
              /\ life' = Append(life,
                                Ev("glCreateProgram", "program", "id", "init"))
              /\ InitFails("linkProgram")
              /\ UNCHANGED <<shadersOk, active>>
    /\ UNCHANGED <<lightVars, fragVars, texVars, ctxVars, lastResize, held,
                   model, view, projection, uniforms, uploaded, store>>
    /\ UNCHANGED <<variant, window, glLoaded, glfw, loopVars,
                   exitCode, depthTest, rejected>>

----------------------------------------------------------------------------
(* setupBuffers(), loadTexture(), end of init() *)

\* void: the result of glBufferData is never examined.
SetupBuffers ==
    /\ pc = "setupBuffers"
    /\ member' = [member EXCEPT !["VAO"] = "id", !["VBO"] = "id"]
    /\ gpu' = [gpu EXCEPT !["VAO"] = "live", !["VBO"] = "live"]
    /\ life' = life \o <<Ev("glGenVertexArrays", "VAO", "id", "init"),
                         Ev("glGenBuffers", "VBO", "id", "init")>>
    /\ store' = [store EXCEPT
                    !.vertexUploads = @ + 1,
                    !.layout = @ \cup AttribLayout(variant),
                    !.layoutCalls = @ + Cardinality(AttribLayout(variant))]
    /\ \E driverRejects \in BOOLEAN :
         rejected' = IF driverRejects THEN rejected \cup {"buffer"}
                     ELSE rejected
    /\ pc' = IF HasTexture(variant) THEN "loadTexture" ELSE "initReturn"
    /\ bound' = [bound EXCEPT !.vao = "0"]
    /\ refs' = refs \cup {Ref("glBindVertexArray", member', gpu', "VAO", "VAO"),
                          Ref("glBindBuffer", member', gpu', "VBO", "VBO")}
    /\ UNCHANGED draws
    /\ UNCHANGED <<lightVars, fragVars, texVars, lastResize, held,
                   model, view, projection, active, uniforms, uploaded>>
    /\ UNCHANGED <<variant, window, glLoaded, glfw, loopVars, initResult,
                   exitCode, depthTest, failed, shadersOk>>

\* Always returns true: the result of glTexImage2D is never examined.
LoadTexture ==
    /\ pc = "loadTexture"
    /\ member' = [member EXCEPT !["texture"] = "id"]
    /\ gpu' = [gpu EXCEPT !["texture"] = "live"]
    /\ life' = Append(life, Ev("glGenTextures", "texture", "id", "init"))
    /\ store' = [store EXCEPT !.texUploads = @ + 1, !.mipGens = @ + 1]
    /\ \E driverRejects \in BOOLEAN :
         rejected' = IF driverRejects THEN rejected \cup {"texture"}
                     ELSE rejected
    /\ pc' = "initReturn"
    /\ bound' = [bound EXCEPT !.tex = Handle(member', "texture", "texture")]
    /\ refs' = refs \cup
                {Ref("glBindTexture", member', gpu', "texture", "texture")}
    /\ UNCHANGED draws
    /\ UNCHANGED <<lightVars, fragVars, texVars, lastResize, held,
                   model, view, projection, active, uniforms, uploaded>>
    /\ UNCHANGED <<variant, window, glLoaded, glfw, loopVars, initResult,
                   exitCode, depthTest, failed, shadersOk>>

\* glEnable(GL_DEPTH_TEST) where the variant has it; return true.
InitReturn ==
    /\ pc = "initReturn"
    /\ depthTest' = HasTransform(variant)
    /\ initResult' = "ok"
    /\ pc' = "mainCheck"
    /\ UNCHANGED <<lightVars, fragVars, texVars, ctxVars, lastResize, held,
                   model, view, projection, active, uniforms, uploaded,
                   store>>
    /\ UNCHANGED <<variant, gpuVars, loopVars, exitCode, rejected, failed,
                   shadersOk>>

----------------------------------------------------------------------------
(* main() after init() *)

\* Mutant: main() calls run() whatever init() returned.
MainCheck_IgnoresInit ==
    /\ pc = "mainCheck"
    /\ pc' = "loop"
    /\ UNCHANGED <<lightVars, fragVars, texVars, ctxVars, lastResize, held,
                   model, view, projection, active, uniforms, uploaded,
                   store>>
    /\ UNCHANGED <<variant, gpuVars, loopVars, resVars>>

\* Mutant: main() returns 0 when init() failed.
MainCheck_ReturnsZero ==
    /\ pc = "mainCheck"
    /\ IF initResult = "ok"
       THEN /\ pc' = "loop"
            /\ UNCHANGED exitCode
       ELSE /\ exitCode' = <<0>>
            /\ pc' = "delVAO"
    /\ UNCHANGED <<lightVars, fragVars, texVars, ctxVars, lastResize, held,
                   model, view, projection, active, uniforms, uploaded,
                   store>>
    /\ UNCHANGED <<variant, gpuVars, loopVars, initResult, depthTest,
                   rejected, failed, shadersOk>>

\* if (!renderer.init()) return -1;  otherwise renderer.run()
MainCheck ==
    /\ pc = "mainCheck"
    /\ IF initResult = "ok"
       THEN /\ pc' = "loop"
            /\ UNCHANGED exitCode
       ELSE /\ exitCode' = <<-1>>
            /\ pc' = "delVAO"
    /\ UNCHANGED <<lightVars, fragVars, texVars, ctxVars, lastResize, held,
                   model, view, projection, active, uniforms, uploaded,
                   store>>
    /\ UNCHANGED <<variant, gpuVars, loopVars, initResult, depthTest,
                   rejected, failed, shadersOk>>

----------------------------------------------------------------------------
(* run(), processInput(), render() *)

LoopPcs == {"loop", "processInput", "clear", "useProgram", "advance",
            "uniforms", "bindTexture", "bindVAO", "draw", "unbindVAO",
            "swap", "poll", "escCheck"}

Running == pc \in LoopPcs

\* A frame call: appended to the log of the iteration.
Step(name) == frame' = Append(frame, name)

\* Mutant: the loop body starts with render() in every variant.
LoopCheck_RenderFirst ==
    /\ pc = "loop"
    /\ IF closeFlag
       THEN /\ pc' = "runReturned"
            /\ UNCHANGED <<frame, frames, uploaded>>
       ELSE /\ frames < MaxFrames
            /\ frames' = frames + 1
            /\ frame' = <<>>
            /\ uploaded' = {}
            /\ pc' = "clear"
    /\ UNCHANGED <<lightVars, fragVars, texVars, ctxVars, lastResize, held,
                   model, view, projection, active, uniforms, store>>
    /\ UNCHANGED <<variant, gpuVars, resVars, issued, closeFlag, objectColor,
                   rotationAngle, clearMask, viewport>>

\* Mutant: run() also stops after three frames.
LoopCheck_FrameLimit ==
    /\ pc = "loop"
    /\ IF closeFlag \/ frames >= 3
       THEN /\ pc' = "runReturned"
            /\ UNCHANGED <<frame, frames, uploaded>>
       ELSE /\ frames < MaxFrames
            /\ frames' = frames + 1
            /\ frame' = <<>>
            /\ uploaded' = {}
            /\ pc' = IF HasTransform(variant) THEN "processInput" ELSE "clear"
    /\ UNCHANGED <<lightVars, fragVars, texVars, ctxVars, lastResize, held,
                   model, view, projection, active, uniforms, store>>
    /\ UNCHANGED <<variant, gpuVars, resVars, issued, closeFlag, objectColor,
                   rotationAngle, clearMask, viewport>>

\* while (!glfwWindowShouldClose(window))
LoopCheck ==
    /\ pc = "loop"
    /\ IF closeFlag
       THEN /\ pc' = "runReturned"
            /\ UNCHANGED <<frame, frames, uploaded>>
       ELSE /\ frames < MaxFrames
            /\ frames' = frames + 1
            /\ frame' = <<>>
            /\ uploaded' = {}
            /\ pc' = IF HasTransform(variant) THEN "processInput" ELSE "clear"
    /\ UNCHANGED <<lightVars, fragVars, texVars, ctxVars, lastResize, held,
                   model, view, projection, active, uniforms, store>>
    /\ UNCHANGED <<variant, gpuVars, resVars, issued, closeFlag, objectColor,
                   rotationAngle, clearMask, viewport>>

\* The fixed color of a color-select key, in tenths.
KeyColor(v, k) ==
    IF v = "phong"
    THEN CASE k = "R" -> <<9, 3, 3>>
           [] k = "G" -> <<3, 9, 3>>
           [] k = "B" -> <<3, 3, 9>>
           [] k = "X" -> <<9, 9, 3>>
    ELSE CASE k = "R" -> <<10, 3, 3>>
           [] k = "G" -> <<3, 10, 3>>
           [] k = "B" -> <<3, 3, 10>>
           [] k = "X" -> <<10, 10, 10>>

\* Mutant: a key only takes effect while the color is the constructor's.
ApplyKey_OnlyFromInitial(v, c, keys, k) ==
    IF k \in keys /\ c = InitialColor(v) THEN KeyColor(v, k) ELSE c

\* One `if (glfwGetKey(...) == GLFW_PRESS) objectColor = ...;`
ApplyKey(v, c, keys, k) == IF k \in keys THEN KeyColor(v, k) ELSE c

\* Mutant: the four tests in the opposite order.
ColorAfterKeys_Reversed(v, c, keys) ==
    ApplyKey(v, ApplyKey(v, ApplyKey(v, ApplyKey(v, c, keys, "X"),
                                     keys, "B"), keys, "G"), keys, "R")

\* The four tests of processInput(), in source order.
ColorAfterKeys(v, c, keys) ==
    ApplyKey(v, ApplyKey(v, ApplyKey(v, ApplyKey(v, c, keys, "R"),
                                     keys, "G"), keys, "B"), keys, "X")

\* Mutant: the R key also restarts the rotation.
ProcessInput_ResetsRotation ==
    /\ pc = "processInput"
    /\ \E keys \in SUBSET Keys :
         /\ closeFlag' = (closeFlag \/ "ESC" \in keys)
         /\ objectColor' = ColorAfterKeys(variant, objectColor, keys)
         /\ held' = keys \cap ColorKeys
         /\ rotationAngle' = IF "R" \in keys THEN 0 ELSE rotationAngle
    /\ Step("input")
    /\ pc' = "clear"
    /\ UNCHANGED <<lightVars, fragVars, texVars, ctxVars, lastResize, model,
                   view, projection, active, uniforms, uploaded, store>>
    /\ UNCHANGED <<variant, gpuVars, resVars, issued, frames,
                   clearMask, viewport>>

ProcessInput ==
    /\ pc = "processInput"
    /\ \E keys \in SUBSET Keys :
         /\ closeFlag' = (closeFlag \/ "ESC" \in keys)
         /\ objectColor' = ColorAfterKeys(variant, objectColor, keys)
         /\ held' = keys \cap ColorKeys
    /\ Step("input")
    /\ pc' = "clear"
    /\ UNCHANGED <<lightVars, fragVars, texVars, ctxVars, lastResize, model,
                   view, projection, active, uniforms, uploaded, store>>
    /\ UNCHANGED <<variant, gpuVars, resVars, issued, rotationAngle, frames,
                   clearMask, viewport>>

Clear ==
    /\ pc = "clear"
    /\ clearMask' = IF HasTransform(variant) THEN "color+depth" ELSE "color"
    /\ issued' = issued \cup {"clear"}
    /\ Step("clear")
    /\ pc' = "useProgram"
    /\ UNCHANGED <<lightVars, fragVars, texVars, ctxVars, lastResize, held,
                   model, view, projection, active, uniforms, uploaded,
                   store>>
    /\ UNCHANGED <<variant, gpuVars, resVars, closeFlag, objectColor,
                   rotationAngle, frames, viewport>>

\* Mutant: render() does not call glUseProgram.
UseProgram_Skipped ==
    /\ pc = "useProgram"
    /\ Step("useProgram")
    /\ pc' = IF HasTransform(variant) THEN "advance" ELSE "bindVAO"
    /\ UNCHANGED <<bound, refs>>
    /\ UNCHANGED draws
    /\ UNCHANGED <<lightVars, fragVars, texVars, lastResize, held,
                   model, view, projection, active, uniforms, uploaded,
                   store>>
    /\ UNCHANGED <<variant, gpuVars, resVars, issued, closeFlag, objectColor,
                   rotationAngle, frames, clearMask, viewport>>

UseProgram ==
    /\ pc = "useProgram"
    /\ Step("useProgram")
    /\ pc' = IF HasTransform(variant) THEN "advance" ELSE "bindVAO"
    /\ bound' = [bound EXCEPT
                    !.program = Handle(member, "shaderProgram", "program")]
    /\ refs' = refs \cup
                {Ref("glUseProgram", member, gpu, "shaderProgram", "program")}
    /\ UNCHANGED draws
    /\ UNCHANGED <<lightVars, fragVars, texVars, lastResize, held,
                   model, view, projection, active, uniforms, uploaded,
                   store>>
    /\ UNCHANGED <<variant, gpuVars, resVars, issued, closeFlag, objectColor,
                   rotationAngle, frames, clearMask, viewport>>

\* Mutant: the rotation is applied to the previous model matrix.
Advance_FromPreviousModel ==
    /\ pc = "advance"
    /\ rotationAngle' = F32Add(rotationAngle, StepF32)
    /\ model' = RotateY(model, rotationAngle')
    /\ Step("advance")
    /\ pc' = "uniforms"
    /\ UNCHANGED <<lightVars, fragVars, texVars, ctxVars, lastResize, held,
                   view, projection, active, uniforms, uploaded, store>>
    /\ UNCHANGED <<variant, gpuVars, resVars, issued, closeFlag, objectColor,
                   frames, clearMask, viewport>>

\* rotationAngle += 0.01f; model = rotate(identity, rotationAngle, y)
Advance ==
    /\ pc = "advance"
    /\ rotationAngle' = F32Add(rotationAngle, StepF32)
    /\ model' = RotateY(Identity, rotationAngle')
    /\ Step("advance")
    /\ pc' = "uniforms"
    /\ UNCHANGED <<lightVars, fragVars, texVars, ctxVars, lastResize, held,
                   view, projection, active, uniforms, uploaded, store>>
    /\ UNCHANGED <<variant, gpuVars, resVars, issued, closeFlag, objectColor,
                   frames, clearMask, viewport>>

\* Mutant: the color uploaded is the constructor's, not the current one.
HostValue_ConstructedColor(n) ==
    CASE n = "model" -> model
      [] n = "view" -> view
      [] n = "projection" -> projection
      [] n = "lightPos" -> lightPos
      [] n = "lightColor" -> lightColor
      [] n = "objectColor" -> InitialColor(variant)
      [] n = "viewPos" -> viewPos

\* The value render() passes for each uniform it sets.
HostValue(n) ==
    CASE n = "model" -> model
      [] n = "view" -> view
      [] n = "projection" -> projection
      [] n = "lightPos" -> lightPos
      [] n = "lightColor" -> lightColor
      [] n = "objectColor" -> objectColor
      [] n = "viewPos" -> viewPos

\* Mutant: a lookup miss abandons the uniforms and the draw of the frame.
Uniforms_StopsAtMiss ==
    /\ pc = "uniforms"
    /\ uniforms' = [n \in UniformNames |->
                      IF HostUniforms(variant) \ active # {}
                      THEN uniforms[n] ELSE
                      IF n \in HostUniforms(variant)
                      THEN SetUniform(uniforms, n,
                                      GetUniformLocation(active, n),
                                      HostValue(n))[n]
                      ELSE uniforms[n]]
    /\ uploaded' = uploaded \cup
                      IF HostUniforms(variant) \ active # {} THEN {} ELSE
                      {n \in HostUniforms(variant) :
                          GetUniformLocation(active, n) # -1}
    /\ Step("uniforms")
    /\ pc' = IF HostUniforms(variant) \ active # {} THEN "swap"
             ELSE IF HasTexture(variant) THEN "bindTexture" ELSE "bindVAO"
    /\ UNCHANGED <<lightVars, fragVars, texVars, ctxVars, lastResize, held,
                   model, view, projection, active, store>>
    /\ UNCHANGED <<variant, gpuVars, resVars, issued, closeFlag, objectColor,
                   rotationAngle, frames, clearMask, viewport>>

Uniforms ==
    /\ pc = "uniforms"
    /\ uniforms' = [n \in UniformNames |->
                      IF n \in HostUniforms(variant)
                      THEN SetUniform(uniforms, n,
                                      GetUniformLocation(active, n),
                                      HostValue(n))[n]
                      ELSE uniforms[n]]
    /\ uploaded' = uploaded \cup
                      {n \in HostUniforms(variant) :
                          GetUniformLocation(active, n) # -1}
    /\ Step("uniforms")
    /\ pc' = IF HasTexture(variant) THEN "bindTexture" ELSE "bindVAO"
    /\ UNCHANGED <<lightVars, fragVars, texVars, ctxVars, lastResize, held,
                   model, view, projection, active, store>>
    /\ UNCHANGED <<variant, gpuVars, resVars, issued, closeFlag, objectColor,
                   rotationAngle, frames, clearMask, viewport>>

BindTexture ==
    /\ pc = "bindTexture"
    /\ Step("bindTexture")
    /\ pc' = "bindVAO"
    /\ bound' = [bound EXCEPT !.unit = 0,
                              !.tex = Handle(member, "texture", "texture")]
    /\ refs' = refs \cup
                {Ref("glBindTexture", member, gpu, "texture", "texture")}
    /\ UNCHANGED draws
    /\ UNCHANGED <<lightVars, fragVars, texVars, lastResize, held,
                   model, view, projection, active, uniforms, uploaded,
                   store>>
    /\ UNCHANGED <<variant, gpuVars, resVars, issued, closeFlag, objectColor,
                   rotationAngle, frames, clearMask, viewport>>

\* Mutant: the vertex data is uploaded again in every frame.
BindVAO_Reuploads ==
    /\ pc = "bindVAO"
    /\ Step("bindVAO")
    /\ store' = [store EXCEPT !.vertexUploads = @ + 1]
    /\ pc' = "draw"
    /\ bound' = [bound EXCEPT !.vao = Handle(member, "VAO", "VAO")]
    /\ refs' = refs \cup {Ref("glBindVertexArray", member, gpu, "VAO", "VAO")}
    /\ UNCHANGED draws
    /\ UNCHANGED <<lightVars, fragVars, texVars, lastResize, held,
                   model, view, projection, active, uniforms, uploaded,
                   uploaded>>
    /\ UNCHANGED <<variant, gpuVars, resVars, issued, closeFlag, objectColor,
                   rotationAngle, frames, clearMask, viewport>>

BindVAO ==
    /\ pc = "bindVAO"
    /\ Step("bindVAO")
    /\ pc' = "draw"
    /\ bound' = [bound EXCEPT !.vao = Handle(member, "VAO", "VAO")]
    /\ refs' = refs \cup {Ref("glBindVertexArray", member, gpu, "VAO", "VAO")}
    /\ UNCHANGED draws
    /\ UNCHANGED <<lightVars, fragVars, texVars, lastResize, held,
                   model, view, projection, active, uniforms, uploaded,
                   store>>
    /\ UNCHANGED <<variant, gpuVars, resVars, issued, closeFlag, objectColor,
                   rotationAngle, frames, clearMask, viewport>>

\* Mutant: the frame is presented from inside the draw step, before the
\* draw call.
Draw_AfterPresent ==
    /\ pc = "draw"
    /\ issued' = issued \cup {"draw", "present"}
    /\ frame' = frame \o <<"swap", "draw">>
    /\ pc' = IF HasTransform(variant) THEN "unbindVAO" ELSE "poll"
    /\ draws' = draws \cup {DrawCall(0, 3)}
    /\ UNCHANGED <<bound, refs>>
    /\ UNCHANGED <<lightVars, fragVars, texVars, lastResize, held,
                   model, view, projection, active, uniforms, uploaded,
                   store>>
    /\ UNCHANGED <<variant, gpuVars, resVars, closeFlag, objectColor,
                   rotationAngle, frames, clearMask, viewport>>

Draw ==
    /\ pc = "draw"
    /\ issued' = issued \cup {"draw"}
    /\ Step("draw")
    /\ pc' = IF HasTransform(variant) THEN "unbindVAO" ELSE "swap"
    /\ draws' = draws \cup {DrawCall(0, 3)}
    /\ UNCHANGED <<bound, refs>>
    /\ UNCHANGED <<lightVars, fragVars, texVars, lastResize, held,
                   model, view, projection, active, uniforms, uploaded,
                   store>>
    /\ UNCHANGED <<variant, gpuVars, resVars, closeFlag, objectColor,
                   rotationAngle, frames, clearMask, viewport>>

UnbindVAO ==
    /\ pc = "unbindVAO"
    /\ Step("unbindVAO")
    /\ pc' = "swap"
    /\ bound' = [bound EXCEPT !.vao = "0"]
    /\ UNCHANGED <<refs, draws>>
    /\ UNCHANGED <<lightVars, fragVars, texVars, lastResize, held,
                   model, view, projection, active, uniforms, uploaded,
                   store>>
    /\ UNCHANGED <<variant, gpuVars, resVars, issued, closeFlag, objectColor,
                   rotationAngle, frames, clearMask, viewport>>

SwapBuffers ==
    /\ pc = "swap"
    /\ issued' = issued \cup {"present"}
    /\ Step("swap")
    /\ pc' = "poll"
    /\ UNCHANGED <<lightVars, fragVars, texVars, ctxVars, lastResize, held,
                   model, view, projection, active, uniforms, uploaded,
                   store>>
    /\ UNCHANGED <<variant, gpuVars, resVars, closeFlag, objectColor,
                   rotationAngle, frames, clearMask, viewport>>

\* Mutant: the callback also recomputes the projection for the new size.
FramebufferSizeCallback_UpdatesAspect(vp, proj, w, h) ==
    << <<w, h>>,
       IF proj = <<>> THEN proj
       ELSE Perspective(proj[1], w, h, proj[4], proj[5]) >>

\* Mutant: the callback does not touch the viewport.
FramebufferSizeCallback_KeepsViewport(vp, proj, w, h) == <<vp, proj>>

\* glViewport(0, 0, width, height): the new viewport and the projection
\* matrix after the callback.
FramebufferSizeCallback(vp, proj, w, h) == << <<w, h>>, proj >>

\* glfwPollEvents(): a window-close request sets the close flag, a resize
\* runs the framebuffer-size callback.
PollEvents ==
    /\ pc = "poll"
    /\ \E closeRequest \in BOOLEAN : closeFlag' = (closeFlag \/ closeRequest)
    /\ \/ UNCHANGED <<viewport, projection, lastResize>>
       \/ \E d \in ResizeDims \cup {DefaultViewport} :
            LET after == FramebufferSizeCallback(viewport, projection,
                                                 d[1], d[2])
            IN  /\ viewport' = after[1]
                /\ projection' = after[2]
                /\ lastResize' = d
    /\ Step("poll")
    /\ pc' = IF HasTransform(variant) THEN "loop" ELSE "escCheck"
    /\ UNCHANGED <<lightVars, fragVars, texVars, ctxVars, held, model, view,
                   active, uniforms, uploaded, store>>
    /\ UNCHANGED <<variant, gpuVars, resVars, issued, objectColor,
                   rotationAngle, frames, clearMask>>

\* simple and demo: the Escape test at the end of the loop body.
EscCheck ==
    /\ pc = "escCheck"
    /\ \E esc \in BOOLEAN : closeFlag' = (closeFlag \/ esc)
    /\ Step("input")
    /\ pc' = "loop"
    /\ UNCHANGED <<lightVars, fragVars, texVars, ctxVars, lastResize, held,
                   model, view, projection, active, uniforms, uploaded,
                   store>>
    /\ UNCHANGED <<variant, gpuVars, resVars, issued, objectColor,
                   rotationAngle, frames, clearMask, viewport>>

\* Mutant: run() releases the program before it returns.
RunReturn_ReleasesProgram ==
    /\ pc = "runReturned"
    /\ exitCode' = <<0>>
    /\ gpu' = [gpu EXCEPT !["program"] = "deleted"]
    /\ life' = Append(life, Ev("glDeleteProgram", "program", "id", "run"))
    /\ pc' = "delVAO"
    /\ UNCHANGED <<lightVars, fragVars, texVars, ctxVars, lastResize, held,
                   model, view, projection, active, uniforms, uploaded,
                   store>>
    /\ UNCHANGED <<variant, window, member, glLoaded, glfw, loopVars,
                   initResult, depthTest, rejected, failed, shadersOk>>

\* Mutant: main() ends the process without running the destructor.
RunReturn_SkipsCleanup ==
    /\ pc = "runReturned"
    /\ exitCode' = <<0>>
    /\ pc' = "exit"
    /\ UNCHANGED <<lightVars, fragVars, texVars, ctxVars, lastResize, held,
                   model, view, projection, active, uniforms, uploaded,
                   store>>
    /\ UNCHANGED <<variant, gpuVars, loopVars, initResult, depthTest,
                   rejected, failed, shadersOk>>

\* run() has returned to main(): return 0, the destructor runs next.
RunReturn ==
    /\ pc = "runReturned"
    /\ exitCode' = <<0>>
    /\ pc' = "delVAO"
    /\ UNCHANGED <<lightVars, fragVars, texVars, ctxVars, lastResize, held,
                   model, view, projection, active, uniforms, uploaded,
                   store>>
    /\ UNCHANGED <<variant, gpuVars, loopVars, initResult, depthTest,
                   rejected, failed, shadersOk>>

----------------------------------------------------------------------------
(* The destructor: cleanup() *)

\* One release of cleanup().  The guarded variants test the member first.
\* A GL call made while the glad pointers are not loaded goes through a
\* null function pointer: the process may die there or run on.
Release(m, o, call, next) ==
    IF Guarded(variant) /\ member[m] = "zero"
    THEN /\ pc' = next
         /\ UNCHANGED <<gpu, life>>
    ELSE /\ life' = Append(life, Ev(call, o, member[m], "cleanup"))
         /\ gpu' = IF glLoaded /\ member[m] = "id" /\ gpu[o] = "live"
                   THEN [gpu EXCEPT ![o] = "deleted"]
                   ELSE gpu
         /\ pc' \in IF glLoaded THEN {next} ELSE {next, "crashed"}

CleanupVAO ==
    /\ pc = "delVAO"
    /\ Release("VAO", "VAO", "glDeleteVertexArrays", "delVBO")
    /\ UNCHANGED <<lightVars, fragVars, texVars, ctxVars, lastResize, held,
                   model, view, projection, active, uniforms, uploaded,
                   store>>
    /\ UNCHANGED <<variant, window, member, glLoaded, glfw, loopVars, resVars>>

\* Mutant: cleanup() forgets the buffer.
CleanupVBO_Forgotten ==
    /\ pc = "delVBO"
    /\ pc' = "delProgram"
    /\ UNCHANGED <<lightVars, fragVars, texVars, ctxVars, lastResize, held,
                   model, view, projection, active, uniforms, uploaded,
                   store>>
    /\ UNCHANGED <<variant, gpuVars, loopVars, resVars>>

CleanupVBO ==
    /\ pc = "delVBO"
    /\ Release("VBO", "VBO", "glDeleteBuffers", "delProgram")
    /\ UNCHANGED <<lightVars, fragVars, texVars, ctxVars, lastResize, held,
                   model, view, projection, active, uniforms, uploaded,
                   store>>
    /\ UNCHANGED <<variant, window, member, glLoaded, glfw, loopVars, resVars>>

CleanupProgram ==
    /\ pc = "delProgram"
    /\ Release("shaderProgram", "program", "glDeleteProgram",
               IF HasTexture(variant) THEN "delTexture" ELSE "terminate")
    /\ UNCHANGED <<lightVars, fragVars, texVars, ctxVars, lastResize, held,
                   model, view, projection, active, uniforms, uploaded,
                   store>>
    /\ UNCHANGED <<variant, window, member, glLoaded, glfw, loopVars, resVars>>

CleanupTexture ==
    /\ pc = "delTexture"
    /\ Release("texture", "texture", "glDeleteTextures", "terminate")
    /\ UNCHANGED <<lightVars, fragVars, texVars, ctxVars, lastResize, held,
                   model, view, projection, active, uniforms, uploaded,
                   store>>
    /\ UNCHANGED <<variant, window, member, glLoaded, glfw, loopVars, resVars>>

\* glfwTerminate(), unconditional in phong and textured, under
\* `if (window)` in simple and demo; then the process ends.
CleanupTerminate ==
    /\ pc = "terminate"
    /\ IF Guarded(variant) /\ window = "null"
       THEN UNCHANGED <<glfw, life>>
       ELSE /\ life' = Append(life, Ev("glfwTerminate", "-", "-", "cleanup"))
            /\ glfw' = IF glfw = "up" THEN "terminated" ELSE glfw
    /\ pc' = "exit"
    /\ UNCHANGED <<lightVars, fragVars, texVars, ctxVars, lastResize, held,
                   model, view, projection, active, uniforms, uploaded,
                   store>>
    /\ UNCHANGED <<variant, window, member, gpu, glLoaded, loopVars, resVars>>

----------------------------------------------------------------------------
Next ==
    \/ GlfwInit
    \/ CreateWindow
    \/ LoadGL
    \/ CompileVertex
    \/ CompileFragment
    \/ LinkProgram
    \/ SetupBuffers
    \/ LoadTexture
    \/ InitReturn
    \/ MainCheck
    \/ LoopCheck
    \/ ProcessInput
    \/ Clear
    \/ UseProgram
    \/ Advance
    \/ Uniforms
    \/ BindTexture
    \/ BindVAO
    \/ Draw
    \/ UnbindVAO
    \/ SwapBuffers
    \/ PollEvents
    \/ EscCheck
    \/ RunReturn
    \/ CleanupVAO
    \/ CleanupVBO
    \/ CleanupProgram
    \/ CleanupTexture
    \/ CleanupTerminate

Spec == Init /\ [][Next]_vars

\* One thread runs main() from start to end and every call it makes
\* returns: a step that can be taken is taken.
FairSpec == Spec /\ WF_vars(Next)

----------------------------------------------------------------------------
(* The Phong fragment shader, on unnormalized integer vectors.  normalize() *)
(* divides by a positive length, so each dot product of normalized vectors *)
(* is the integer dot product here divided by a positive factor: it is     *)
(* zero, positive or negative exactly when the integer one is.             *)

Vecs == {v \in (-VecMax..VecMax) \X (-VecMax..VecMax) \X (-VecMax..VecMax) :
            v # <<0, 0, 0>>}

Dot3(a, b) == a[1] * b[1] + a[2] * b[2] + a[3] * b[3]

Neg3(a) == <<-a[1], -a[2], -a[3]>>

MaxOf(a, b) == IF a >= b THEN a ELSE b

\* reflect(I, N) = I - 2 * dot(N, I) * N for unit N, times dot(N, N).
Reflect(I, N) ==
    <<I[1] * Dot3(N, N) - 2 * Dot3(N, I) * N[1],
      I[2] * Dot3(N, N) - 2 * Dot3(N, I) * N[2],
      I[3] * Dot3(N, N) - 2 * Dot3(N, I) * N[3]>>

\* pow(max(dot(viewDir, reflectDir), 0.0), 32): 0 when the base is 0, 2
\* when the base is 1 (the two unit vectors coincide), 1 when it lies
\* strictly between.
SpecLevel(V, R) ==
    LET base == MaxOf(Dot3(V, R), 0)
    IN  IF base = 0 THEN 0
        ELSE IF base * base = Dot3(V, V) * Dot3(R, R) THEN 2
        ELSE 1

\* Mutant: the specular term is dropped where the diffuse factor is zero.
PhongFragment_SpecularGated(N, L, V, lc) ==
    LET diff == MaxOf(Dot3(N, L), 0)
        reflectDir == Reflect(Neg3(L), N)
        spec == IF diff = 0 THEN 0 ELSE SpecLevel(V, reflectDir)
    IN  <<lc,
          <<diff * lc[1], diff * lc[2], diff * lc[3]>>,
          <<spec * lc[1], spec * lc[2], spec * lc[3]>>,
          reflectDir>>

\* main() of the fragment shader: ambient, diffuse and specular terms and
\* the reflected direction.  ambient is 0.1 * lightColor; diffuse is
\* diff * lightColor with diff scaled by the two lengths; specular is
\* 0.5 * spec * lightColor with spec given by its level.
PhongFragment(N, L, V, lc) ==
    LET diff == MaxOf(Dot3(N, L), 0)
        reflectDir == Reflect(Neg3(L), N)
        spec == SpecLevel(V, reflectDir)
    IN  <<lc,
          <<diff * lc[1], diff * lc[2], diff * lc[3]>>,
          <<spec * lc[1], spec * lc[2], spec * lc[3]>>,
          reflectDir>>

Ambient(out) == out[1]
Diffuse(out) == out[2]
Specular(out) == out[3]
ReflectDir(out) == out[4]

\* One fragment of the Phong variant, for any normal, light and viewer
\* direction.
InitLighting ==
    /\ variant = "phong"
    /\ pc = "shade"
    /\ Constructed
    /\ TexIdle
    /\ fragN \in Vecs
    /\ fragL \in Vecs
    /\ fragV \in Vecs
    /\ fragOut = <<>>

Shade ==
    /\ pc = "shade"
    /\ fragOut' = PhongFragment(fragN, fragL, fragV, lightColor)
    /\ pc' = "shaded"
    /\ UNCHANGED <<variant, gpuVars, loopVars, resVars, lightVars, lastResize,
                   held, model, view, projection, active, uniforms, uploaded,
                   store, fragN, fragL, fragV, ctxVars, texVars>>

NextLighting == Shade

SpecLighting == InitLighting /\ [][NextLighting]_vars

----------------------------------------------------------------------------
(* loadTexture(): the loops that fill textureData and the upload.  The C   *)
(* array is held as one sequence of bytes per row of the image: offset o   *)
(* is element (o % RowLen) + 1 of row (o \div RowLen) + 1.  An element that *)
(* was never stored to holds -1.                                           *)

TextureWidth == 64
TextureHeight == 64
TileSize == 8

White == <<255, 255, 255>>
Red == <<255, 100, 100>>

\* sizeof textureData
BufferLen == TextureWidth * TextureHeight * Len(White)

\* int index = (y * textureWidth + x) * 3;
TexelIndex(x, y) == (y * TextureWidth + x) * 3

\* Mutant: the tiles are one pixel wide.
IsEven_ByPixel(x, y) == (x + y) % 2 = 0

\* bool isEven = ((x / 8) + (y / 8)) % 2 == 0;
IsEven(x, y) == ((x \div TileSize) + (y \div TileSize)) % 2 = 0

\* Bytes in one row of the image.
RowLen == TextureWidth * Len(White)

ByteAt(data, o) == data[(o \div RowLen) + 1][(o % RowLen) + 1]

\* textureData[o] = b;
StoreByte(data, o, b) ==
    IF o \in 0..(BufferLen - 1)
    THEN [data EXCEPT ![(o \div RowLen) + 1][(o % RowLen) + 1] = b]
    ELSE data

\* textureData[index] = b[1]; textureData[index + 1] = b[2];
\* textureData[index + 2] = b[3];
StoreTexel(data, index, b) ==
    StoreByte(StoreByte(StoreByte(data, index, b[1]), index + 1, b[2]),
              index + 2, b[3])

\* One more store counted at offset o.
CountStore(w, o) == StoreByte(w, o, ByteAt(w, o) + 1)

\* Offsets of the three stores that fall outside the array.
StrayOffsets(index) == {o \in index..(index + 2) : o \notin 0..(BufferLen - 1)}

\* loadTexture() is entered: the array is allocated, nothing is stored.
InitTexture ==
    /\ variant = "textured"
    /\ pc = "texFill"
    /\ Constructed
    /\ fragN = <<>>
    /\ fragL = <<>>
    /\ fragV = <<>>
    /\ fragOut = <<>>
    /\ texX = 0
    /\ texY = 0
    /\ textureData = [r \in 1..TextureHeight |-> [i \in 1..RowLen |-> -1]]
    /\ texWrites = [r \in 1..TextureHeight |-> [i \in 1..RowLen |-> 0]]
    /\ texStray = {}
    /\ texImage = <<>>

\* One pass of the body of the inner loop, and the loop increments.
FillTexel ==
    /\ pc = "texFill"
    /\ texY < TextureHeight
    /\ LET index == TexelIndex(texX, texY)
       IN  /\ textureData' = StoreTexel(textureData, index,
                                        IF IsEven(texX, texY) THEN White
                                        ELSE Red)
           /\ texWrites' = CountStore(CountStore(CountStore(texWrites, index),
                                                  index + 1), index + 2)
           /\ texStray' = texStray \cup StrayOffsets(index)
    /\ IF texX + 1 < TextureWidth
       THEN texX' = texX + 1 /\ texY' = texY
       ELSE texX' = 0 /\ texY' = texY + 1
    /\ UNCHANGED <<variant, pc, gpuVars, loopVars, resVars, lightVars,
                   fragVars, ctxVars, lastResize, held, model, view,
                   projection, active, uniforms, uploaded, store, texImage>>

\* The loops are done: glTexImage2D(..., textureWidth, textureHeight, ...,
\* textureData).
UploadTexture ==
    /\ pc = "texFill"
    /\ texY >= TextureHeight
    /\ texImage' = << <<TextureWidth, TextureHeight>> >> \o textureData
    /\ pc' = "texDone"
    /\ UNCHANGED <<variant, gpuVars, loopVars, resVars, lightVars, fragVars,
                   ctxVars, lastResize, held, model, view, projection,
                   active, uniforms, uploaded, store, texX, texY,
                   textureData, texWrites, texStray>>

NextTexture ==
    \/ FillTexel
    \/ UploadTexture

SpecTexture == InitTexture /\ [][NextTexture]_vars

----------------------------------------------------------------------------
TypeOK ==
    /\ variant \in Variants
    /\ window \in {"uninit", "null", "valid"}
    /\ \A m \in Members : member[m] \in {"uninit", "zero", "id", "absent"}
    /\ \A o \in Objs : gpu[o] \in {"none", "live", "deleted"}
    /\ glfw \in {"off", "up", "terminated"}
    /\ frames \in 0..MaxFrames
    /\ rotationAngle \in 0..(MaxFrames * StepF32)
    /\ initResult \in {"none", "ok", "fail"}
    /\ exitCode \in {<<>>, <<0>>, <<-1>>}

----------------------------------------------------------------------------
(* Reading the logs *)

Creates(o) ==
    Cardinality({i \in DOMAIN life : IsCreate(life[i]) /\ life[i].obj = o})

Deletes(o) ==
    Cardinality({i \in DOMAIN life : IsDelete(life[i]) /\ life[i].obj = o})

Stages == {"vertexShader", "fragmentShader"}

Positions(name) == {i \in DOMAIN frame : frame[i] = name}

Once(name) == Cardinality(Positions(name)) = 1

Never(name) == Positions(name) = {}

Before(a, b) == \A i \in Positions(a), j \in Positions(b) : i < j

\* The iteration recorded in `frame` has run to its end.
IterationDone == frames > 0 /\ pc \notin (LoopPcs \ {"loop"})

ProcessEnded == pc = "exit"

----------------------------------------------------------------------------
\* C1: when an initialization step fails (GLFW init, window creation, GL
\* loader, vertex compile, fragment compile, link), init() reports failure,
\* the loop of run() is never entered and no clear, draw or present call is
\* issued in the process.
C1_FailedInitNeverRuns ==
    failed # "none" =>
        /\ initResult = "fail"
        /\ ~Running
        /\ pc # "runReturned"
        /\ frames = 0
        /\ issued = {}
        /\ frame = <<>>

C1_Witness == failed = "linkProgram" /\ ProcessEnded

\* C2: after a successful init() each owned object (vertex array, buffer,
\* program, texture where present) has exactly one live handle, created
\* once; at process end every handle init() created, the two stage handles
\* included, has been deleted exactly once, each delete naming a created
\* handle, and none is left live.
C2_OneHandleEachReleasedOnce ==
    initResult = "ok" =>
        /\ \A o \in Objs : Deletes(o) <= 1
        /\ \A o \in Owned(variant) : Creates(o) = 1
        /\ \A o \in Objs \ (Owned(variant) \cup Stages) : Creates(o) = 0
        /\ (pc \in LoopPcs \cup {"mainCheck", "runReturned"}) =>
              \A o \in Owned(variant) : gpu[o] = "live" /\ Deletes(o) = 0
        /\ ProcessEnded =>
              /\ \A o \in Objs : gpu[o] # "live" /\ Deletes(o) = Creates(o)
              /\ \A i \in DOMAIN life :
                    IsDelete(life[i]) => life[i].arg = "id"

C2_Witness == initResult = "ok" /\ ProcessEnded /\ HasTexture(variant)

\* C3: cleanup() never issues a GPU delete on a handle that was never
\* created, is uninitialized or was already deleted, and never calls a GL
\* function before the GL function pointers are loaded.
C3_CleanupOnlyReleasesLiveHandles ==
    \A i \in DOMAIN life :
        (life[i].by = "cleanup" /\ IsDelete(life[i])) =>
            /\ life[i].arg = "id"
            /\ life[i].loaded
            /\ \A j \in 1..(i - 1) :
                  ~(IsDelete(life[j]) /\ life[j].obj = life[i].obj)

\* C4: on every exit path no GPU delete call is issued after the graphics
\* context has been torn down by glfwTerminate.
C4_NoDeleteAfterTeardown ==
    \A i \in DOMAIN life : IsDelete(life[i]) => life[i].glfw # "terminated"

\* C5 (as stated): when run() returns, every owned GPU handle has already
\* been released.
C5_ReleasedWhenRunReturns ==
    pc = "runReturned" => \A o \in Owned(variant) : gpu[o] = "deleted"

\* C5 (amended): run() releases nothing, every owned GPU handle is still
\* live when it returns; the destructor's cleanup() releases every owned
\* GPU object afterwards, while GLFW is still up, so that at process end
\* after a normal close every owned handle has been released.
C5_ReleasedByDestructorAfterRun ==
    /\ (pc = "runReturned" \/ (pc = "delVAO" /\ exitCode = <<0>>)) =>
          \A o \in Owned(variant) : gpu[o] = "live" /\ Deletes(o) = 0
    /\ (ProcessEnded /\ exitCode = <<0>>) =>
          \A o \in Owned(variant) :
              /\ gpu[o] = "deleted"
              /\ Deletes(o) = 1
              /\ \E i \in DOMAIN life :
                    /\ IsDelete(life[i]) /\ life[i].obj = o
                    /\ life[i].by = "cleanup" /\ life[i].glfw = "up"

C5_Witness == ProcessEnded /\ exitCode = <<0>> /\ closeFlag /\ frames > 0

\* C6: once createShaders() has returned success both stage handles have
\* been created and deleted, the program handle is the only shader resource
\* that stays live, and no stage handle is live in any later state.
C6_StagesTransient ==
    (shadersOk \/ initResult = "ok") =>
        /\ \A o \in Stages :
              gpu[o] = "deleted" /\ Creates(o) = 1 /\ Deletes(o) = 1
        /\ gpu["program"] \in {"live", "deleted"}
        /\ (pc \in LoopPcs \cup {"setupBuffers", "loadTexture", "initReturn",
                                 "mainCheck", "runReturned"})
              => gpu["program"] = "live"

C6_Witness == shadersOk /\ pc = "draw"

\* C7: at process end, on every exit path, every handle that was created
\* has been released and no delete was issued for a handle that was not
\* created.
C7_ExitReleasesExactlyCreated ==
    ProcessEnded =>
        /\ \A o \in Objs : gpu[o] # "live"
        /\ \A i \in DOMAIN life : IsDelete(life[i]) => life[i].arg = "id"

\* C8: a vertex-buffer or texture upload rejected by the driver makes
\* init() fail; Running is never reached with a rejected upload.
C8_RejectedUploadIsFatal ==
    rejected # {} => (initResult # "ok" /\ ~Running)

C10_InputFirstInEveryVariant ==
    \A i \in DOMAIN frame :
        frame[i] \in {"clear", "draw", "swap"} =>
            \E j \in 1..(i - 1) : frame[j] = "input"

\* C10 (amended): in the Phong and textured variants each iteration begins
\* with input polling, read before that iteration's clear, draw and
\* present; in the simple and color variants the only key read, the Escape
\* check, is the last step of the iteration, after its clear, draw, present
\* and event poll.
C10_InputFirstOnlyWithProcessInput ==
    /\ HasTransform(variant) =>
          /\ frame # <<>> => frame[1] = "input"
          /\ Cardinality(Positions("input")) <= 1
          /\ C10_InputFirstInEveryVariant
    /\ ~HasTransform(variant) =>
          /\ \A i \in Positions("input") :
                /\ i = Len(frame)
                /\ \A n \in {"clear", "draw", "swap", "poll"} :
                      \E j \in 1..(i - 1) : frame[j] = n
          /\ IterationDone => Once("input")

C10_Witness ==
    ~HasTransform(variant) /\ IterationDone /\ frame[Len(frame)] = "input"

----------------------------------------------------------------------------
(* Frames rendered, key order, float accumulation *)

\* Number of frames whose rotation step has run.
Rendered ==
    IF frames = 0 THEN 0
    ELSE IF Positions("advance") # {} \/ ~HasTransform(variant) THEN frames
    ELSE frames - 1

RECURSIVE AccF32(_)
\* The float32 sum of n steps, added one at a time.
AccF32(n) == IF n = 0 THEN 0 ELSE F32Add(AccF32(n - 1), StepF32)

\* The color-select keys tested after key k in processInput().
TestedAfter(k) ==
    CASE k = "R" -> {"G", "B", "X"}
      [] k = "G" -> {"B", "X"}
      [] k = "B" -> {"X"}
      [] k = "X" -> {}

\* The uniforms of `uploaded` were stored in this iteration and the
\* iteration is past its uniform step.
PastUniforms ==
    pc \in {"bindTexture", "bindVAO", "draw", "unbindVAO", "swap", "poll"}

----------------------------------------------------------------------------
\* C11 (as stated): while a color-select key is held, objectColor is that
\* key's fixed value after the frame's input handling, whatever the other
\* keys do.
C11_HeldKeyAlwaysWins ==
    HasTransform(variant) =>
        \A k \in held : objectColor = KeyColor(variant, k)

\* C11 (amended): in every frame in which a color-select key is held and no
\* key tested after it (order R, G, B, then Y or W) is held, objectColor is
\* that key's fixed value after input handling; a frame's input handling
\* with no color-select key held leaves objectColor as it was.
C11_HeldKeyWinsUnlessLaterKeyHeld ==
    /\ [](HasTransform(variant) =>
            \A k \in held :
                (held \cap TestedAfter(k) = {}) =>
                    objectColor = KeyColor(variant, k))
    /\ [][(pc = "processInput" /\ held' = {}) =>
              objectColor' = objectColor]_vars

C11_Witness ==
    /\ held = {"R"}
    /\ frames >= 2
    /\ pc = "draw"
    /\ objectColor = KeyColor(variant, "R")

\* C12 (as stated): after N rendered frames rotationAngle equals N times the
\* step (the float product N * 0.01f).
C12_AngleIsNTimesStep ==
    HasTransform(variant) => rotationAngle = RoundF32(Rendered * StepF32)

\* C12 (amended): rotationAngle starts at 0 and is incremented by 0.01f
\* once per rendered frame in float32, never wrapped, reset or decremented;
\* after N frames it is the float32 running sum of N steps, which is N times
\* the step up to N = 4 and falls below it later (at N = 6 by 4 units of
\* 2^-30); the model matrix of each frame is the rotation about y by that
\* running sum, computed from the identity, and is what the frame uploads.
C12_AngleIsFloatRunningSum ==
    HasTransform(variant) =>
        /\ rotationAngle = AccF32(Rendered)
        /\ Rendered <= 4 => rotationAngle = Rendered * StepF32
        /\ Rendered = 6 => rotationAngle = 6 * StepF32 - 4
        /\ Rendered > 0 => rotationAngle > AccF32(Rendered - 1)
        /\ model = <<0, 1, 0, rotationAngle>>
        /\ (PastUniforms /\ "model" \in uploaded) =>
              uniforms["model"] = <<model>>

C12_Witness == Rendered = 6 /\ PastUniforms /\ "model" \in uploaded

\* C13: in every frame, every uniform the active shader program uses has
\* been set in that frame before the draw is submitted.
C13_EveryUsedUniformSetEachFrame ==
    Positions("draw") # {} =>
        \A n \in ShaderUniforms(variant) \cap active : n \in uploaded

\* C14: view and projection keep the value computed in the constructor (eye
\* (0,0,3), target origin, up +y, 45 degrees, 800/600, near 0.1, far 100)
\* in every state and are uploaded with that value; no frame, key or resize
\* changes them, while the model matrix follows the rotation.
C14_ViewProjectionFixed ==
    HasTransform(variant) =>
        /\ view = <<0, 0, 30, 0, 0, 0, 0, 10, 0>>
        /\ projection = <<45, 800, 600, 1, 1000>>
        /\ "view" \in uploaded => uniforms["view"] = <<view>>
        /\ "projection" \in uploaded => uniforms["projection"] = <<projection>>
        /\ Rendered > 0 => model # Identity

C14_Witness ==
    /\ HasTransform(variant)
    /\ lastResize = <<640, 640>>
    /\ held # {}
    /\ Rendered >= 2
    /\ "projection" \in uploaded

\* C15 (as stated): after a resize to (w, h) the viewport is (w, h) and the
\* projection uploaded by every later frame has aspect ratio w / h.
C15_ResizeUpdatesAspect ==
    (lastResize # <<>> /\ PastUniforms /\ "projection" \in uploaded) =>
        /\ viewport = lastResize
        /\ uniforms["projection"][1][2] * lastResize[2]
             = uniforms["projection"][1][3] * lastResize[1]

\* C15 (amended): a resize to (w, h) is forwarded into the viewport only:
\* the viewport becomes (w, h), and every later frame still uploads the
\* projection of the constructor, aspect ratio 800 / 600.
C15_ResizeUpdatesViewportOnly ==
    /\ lastResize # <<>> => viewport = lastResize
    /\ (lastResize # <<>> /\ PastUniforms /\ "projection" \in uploaded) =>
          /\ uniforms["projection"][1][2] = 800
          /\ uniforms["projection"][1][3] = 600

C15_Witness ==
    /\ lastResize = <<640, 640>>
    /\ pc = "draw"
    /\ "projection" \in uploaded

\* C16: the vertex data upload, each attribute layout call and the texture
\* upload with its mip generation happen exactly once, in init(); no
\* operation of the Running state repeats or changes them.
C16_StaticStorageWrittenOnce ==
    /\ store.vertexUploads <= 1
    /\ store.texUploads <= 1
    /\ store.mipGens <= 1
    /\ store.layoutCalls = Cardinality(store.layout)
    /\ (initResult = "ok") =>
          /\ store.vertexUploads = 1
          /\ store.layoutCalls >= 1
          /\ \A a \in store.layout, b \in store.layout :
                a[1] = b[1] => a = b
          /\ store.texUploads = IF HasTexture(variant) THEN 1 ELSE 0
          /\ store.mipGens = store.texUploads
    /\ (pc \in {"glfwInit", "createWindow", "loadGL", "compileVertex",
                "compileFragment", "linkProgram", "setupBuffers"})
          => store = EmptyStore

C16_Witness == pc = "swap" /\ frames >= 2 /\ HasTexture(variant)

\* C17: the process returns 0 exactly when init() succeeded and the loop
\* ended on the close flag, and a non-zero code exactly when init() failed.
C17_ExitCode ==
    /\ exitCode = <<0>> => (initResult = "ok" /\ closeFlag)
    /\ exitCode = <<-1>> => (initResult = "fail" /\ frames = 0)
    /\ (ProcessEnded \/ pc = "crashed") =>
          /\ initResult = "ok" => exitCode = <<0>>
          /\ initResult = "fail" => (exitCode # <<>> /\ exitCode[1] # 0)
          /\ initResult # "none"
    /\ pc = "crashed" => initResult = "fail"

C17_Witness ==
    ProcessEnded /\ exitCode = <<-1>> /\ failed = "compileFragment"

\* C19: Running is left only at the loop-condition check with the close
\* flag set, and the close flag is never cleared once set.
C19_LoopEndsOnlyOnClose ==
    [][/\ (Running /\ ~Running') =>
             (pc = "loop" /\ closeFlag /\ pc' = "runReturned")
       /\ closeFlag => closeFlag']_vars

C19_Witness == pc = "runReturned" /\ Rendered >= 2

\* C20: when a uniform render() sets is not active in the linked program,
\* the set is a no-op: every other uniform is still stored in that frame,
\* the draw is still submitted and presented, and the loop is left only on
\* the close flag.
C20_UniformMissIsNoOp ==
    (HostUniforms(variant) \ active # {} /\ initResult = "ok") =>
        /\ PastUniforms =>
              /\ uploaded = HostUniforms(variant) \cap active
              /\ \A n \in HostUniforms(variant) \ active : uniforms[n] = <<>>
              /\ \A n \in uploaded : uniforms[n] # <<>>
        /\ IterationDone => (Once("draw") /\ Once("swap"))
        /\ pc # "crashed"
        /\ pc \notin (LoopPcs \cup {"mainCheck"}) => closeFlag

C20_Witness ==
    /\ "objectColor" \in HostUniforms(variant) \ active
    /\ IterationDone
    /\ Rendered >= 2

----------------------------------------------------------------------------
\* C18 (as stated): when the normal is perpendicular to the light direction,
\* the diffuse and the specular terms are both zero for every viewer
\* direction.
C18_PerpendicularLeavesAmbientOnly ==
    (pc = "shaded" /\ Dot3(fragN, fragL) = 0) =>
        /\ Diffuse(fragOut) = <<0, 0, 0>>
        /\ Specular(fragOut) = <<0, 0, 0>>

\* C18 (amended): when the normal is perpendicular to the light direction
\* the diffuse term is zero and the reflected direction is the reversed
\* light direction; the specular term is zero for the viewer directions
\* that make no acute angle with the reversed light direction, and for the
\* viewer direction equal to it the specular term is at its maximum,
\* 0.5 x lightColor.
C18_PerpendicularZeroesDiffuseOnly ==
    (pc = "shaded" /\ Dot3(fragN, fragL) = 0) =>
        /\ Ambient(fragOut) = lightColor
        /\ Diffuse(fragOut) = <<0, 0, 0>>
        /\ \E c \in 1..(3 * VecMax * VecMax) :
              ReflectDir(fragOut) = <<-c * fragL[1], -c * fragL[2],
                                      -c * fragL[3]>>
        /\ Dot3(fragV, fragL) >= 0 => Specular(fragOut) = <<0, 0, 0>>
        /\ fragV = Neg3(fragL) =>
              Specular(fragOut) = <<2 * lightColor[1], 2 * lightColor[2],
                                    2 * lightColor[3]>>

C18_Witness ==
    /\ pc = "shaded"
    /\ Dot3(fragN, fragL) = 0
    /\ fragV = Neg3(fragL)
    /\ Specular(fragOut) # <<0, 0, 0>>

----------------------------------------------------------------------------
\* C21: once the close flag is raised (Escape seen by an input poll, or a
\* window-close request delivered by glfwPollEvents) the loop is left and
\* the process ends with cleanup() executed: every owned handle released
\* and GLFW terminated.  No further iteration is started after the flag is
\* raised: in phong and textured the frame of the iteration that saw Escape
\* is still drawn and presented, in simple and demo the flag is only raised
\* after the frame was presented.
C21_CloseLeadsToTermination ==
    /\ closeFlag ~> (/\ ProcessEnded
                     /\ exitCode = <<0>>
                     /\ glfw = "terminated"
                     /\ \A o \in Owned(variant) : gpu[o] = "deleted")
    /\ [][closeFlag => frames' = frames]_vars
    /\ (closeFlag /\ pc = "clear") ~>
           (pc = "loop" /\ Once("draw") /\ Once("swap"))
    /\ [](closeFlag /\ Running /\ ~HasTransform(variant) =>
              pc \in {"escCheck", "loop"})

C21_Witness ==
    /\ closeFlag
    /\ ProcessEnded
    /\ glfw = "terminated"
    /\ Positions("input") # {}
    /\ Positions("draw") # {}

----------------------------------------------------------------------------
\* C22: the objectColor uniform uploaded in an iteration is the value
\* objectColor was left with by the processInput() of that iteration:
\* objectColor changes in processInput() only, and from the uniform upload
\* to the end of the iteration the uniform equals objectColor, which is the
\* color of the held keys when a color key was held.
C22_UploadedColorIsThisFramesInput ==
    /\ []((PastUniforms /\ "objectColor" \in uploaded) =>
            /\ uniforms["objectColor"] = <<objectColor>>
            /\ held # {} =>
                 uniforms["objectColor"] =
                    <<ColorAfterKeys(variant, InitialColor(variant), held)>>)
    /\ [][objectColor' # objectColor => pc = "processInput"]_vars

C22_Witness ==
    /\ pc = "draw"
    /\ frames >= 2
    /\ "objectColor" \in uploaded
    /\ held # {}
    /\ objectColor # InitialColor(variant)

----------------------------------------------------------------------------
\* C23: processInput() changes nothing but objectColor and the close flag:
\* lightPos, lightColor, viewPos, rotationAngle, model, view, projection,
\* the window and the GPU handles are left as they were, and when no
\* color-select key is held objectColor is left as it was.
C23_InputMutatesOnlyColor ==
    [][pc = "processInput" =>
          /\ UNCHANGED <<lightPos, lightColor, viewPos, rotationAngle, model,
                         view, projection, window, member, gpu>>
          /\ held' = {} => objectColor' = objectColor]_vars

C23_Witness ==
    /\ pc = "clear"
    /\ frames >= 2
    /\ held = {}
    /\ rotationAngle > 0
    /\ objectColor # InitialColor(variant)

----------------------------------------------------------------------------
\* C24: the shader build is sequential and not retried: each of the vertex
\* stage, the fragment stage and the program is created at most once, the
\* fragment stage only after the vertex stage compiled, the program only
\* after both stages compiled, and after a failed compile or link
\* createShaders() has returned false, init() has failed and no vertex
\* array, buffer or texture is created.
C24_ShaderBuildSequentialNoRetry ==
    /\ \A o \in Stages \cup {"program"} : Creates(o) <= 1
    /\ Creates("fragmentShader") = 1 =>
          Creates("vertexShader") = 1 /\ failed # "compileVertex"
    /\ Creates("program") = 1 =>
          /\ Creates("fragmentShader") = 1
          /\ failed \notin {"compileVertex", "compileFragment"}
    /\ failed \in {"compileVertex", "compileFragment", "linkProgram"} =>
          /\ ~shadersOk
          /\ initResult = "fail"
          /\ \A o \in {"VAO", "VBO", "texture"} : Creates(o) = 0
          /\ store = EmptyStore

C24_Witness ==
    /\ failed = "linkProgram"
    /\ pc = "mainCheck"
    /\ Creates("program") = 1

----------------------------------------------------------------------------
\* C25: every draw call is made inside the loop of run(), after init()
\* succeeded, with the linked program in use, the vertex array of
\* setupBuffers() bound, first vertex 0 and vertex count 3, and in the
\* textured variant the texture of loadTexture() bound on unit 0; every
\* glUseProgram and glBind* call is given a handle that was created and is
\* not yet released.
C25_DrawsAndBindsUseLiveHandles ==
    /\ \A d \in draws :
          /\ d.at \in LoopPcs
          /\ d.init = "ok"
          /\ d.linked
          /\ d.program = "program"
          /\ d.vao = "VAO"
          /\ d.first = 0
          /\ d.count = 3
          /\ {"program", "VAO", "VBO"} \subseteq d.live
          /\ HasTexture(variant) =>
                d.unit = 0 /\ d.tex = "texture" /\ "texture" \in d.live
    /\ \A r \in refs : r.arg = "id" /\ r.status = "live"

C25_Witness ==
    /\ pc = "unbindVAO"
    /\ frames >= 2
    /\ HasTexture(variant)
    /\ draws # {}

----------------------------------------------------------------------------
\* The held key that processInput() tests last.
LastChecked(keys) ==
    IF "X" \in keys THEN "X"
    ELSE IF "B" \in keys THEN "B"
    ELSE IF "G" \in keys THEN "G"
    ELSE "R"

\* C26: when color-select keys are held in a frame, objectColor after
\* processInput() is the fixed color of the held key tested last in the
\* order R, G, B, Y/W: a function of the set of held keys alone.
C26_LastCheckedKeyWins ==
    [][(pc = "processInput" /\ held' # {}) =>
          objectColor' = KeyColor(variant, LastChecked(held'))]_vars

C26_Witness ==
    /\ pc = "clear"
    /\ held = {"R", "B"}
    /\ objectColor = KeyColor(variant, "B")
    /\ frames >= 2

----------------------------------------------------------------------------
\* Number of texels the loops have stored so far.
TexelsDone == texY * TextureWidth + texX

\* C27: the generated texture is 64 x 64 texels of 3 bytes in 8 x 8 tiles:
\* the texel at offset (y * 64 + x) * 3 is (255, 255, 255) when
\* x div 8 + y div 8 is even and (255, 100, 100) otherwise; no store falls
\* outside the buffer, after each row the bytes of the rows done have
\* been stored once and the others not at all, and when the loops end
\* every byte has been stored once and the buffer is what is uploaded.
C27_CheckerboardEveryByteOnce ==
    /\ BufferLen = 64 * 64 * 3
    /\ texStray = {}
    /\ texX = 0 =>
          /\ \A o \in 0..(64 * 64 * 3 - 1) :
                ByteAt(texWrites, o) = IF o < 3 * TexelsDone THEN 1 ELSE 0
          /\ \A y \in 0..63 : \A x \in 0..63 :
                (y * 64 + x < TexelsDone) =>
                   LET o == (y * 64 + x) * 3
                   IN  <<ByteAt(textureData, o), ByteAt(textureData, o + 1),
                         ByteAt(textureData, o + 2)>> =
                           IF ((x \div 8) + (y \div 8)) % 2 = 0
                           THEN <<255, 255, 255>> ELSE <<255, 100, 100>>
    /\ pc = "texDone" =>
          /\ TexelsDone = 64 * 64
          /\ texImage = << <<64, 64>> >> \o textureData

\* The loops are in the second row of tiles: texels of both colors of the
\* first and of the second row of tiles are stored.
C27_Witness ==
    /\ pc = "texFill"
    /\ texY = 8
    /\ texX = 9
    /\ ByteAt(textureData, 1) = 255
    /\ ByteAt(textureData, 8 * 3 + 1) = 100
    /\ ByteAt(textureData, (8 * 64) * 3 + 1) = 100
    /\ ByteAt(textureData, (8 * 64 + 8) * 3 + 1) = 255
    /\ ByteAt(texWrites, (8 * 64 + 8) * 3 + 1) = 1

====
